---- MODULE Spec2Model ----
(***************************************************************************)
(* Instrumentation and metrics-sampling pipeline of the ns-3 experiment    *)
(* programs: ten programs (five topologies, QUIC BBR and TCP CUBIC), each  *)
(* a main() that schedules an attach attempt, a throughput sampler and a   *)
(* loss calculation on the simulator's event queue, plus the trace         *)
(* callbacks the transport layer invokes.                                  *)
(*                                                                         *)
(* Time is counted in units of 10 ms (every delay in the sources is a      *)
(* multiple of 10 ms): Seconds(0.01) = 1, Seconds(0.1) = 10,               *)
(* MilliSeconds(100) = 10, Seconds(1.0) = 100.                             *)
(*                                                                         *)
(* A value written to an output file with operator<< is modelled as the    *)
(* decimal number the stream prints: a double is printed with the default  *)
(* precision of 6 significant digits, so a written value is a record       *)
(*     [neg |-> sign, m |-> mantissa, e |-> exponent]  =  (+/-) m * 10^e   *)
(* with m < 10^6 and no trailing zero in m (m = 0, e = 0 for zero).        *)
(***************************************************************************)
EXTENDS Integers, Sequences, FiniteSets, TLC

(***************************************************************************)
(* Bounds of the model.                                                    *)
(***************************************************************************)
\* Sampling periods between the first tick at 1.0 s and the last tick before
\* the horizon (DURATION is 100 s or 60 s in the sources; the model runs a
\* shorter horizon).
Periods == 1
\* Number of sender applications in the programs that install several
\* (NUM_NODES - 1 in Bus, one per client in Star tcpcubic).
MaxFlows == 2
\* Transport-layer notifications (Tx, Rx, cwnd, RTT) delivered in one run:
\* two, so that two of them can arrive between two ticks, or one before each.
MaxNotify == 2

(***************************************************************************)
(* The ten programs.                                                       *)
(***************************************************************************)
QuicVariants == {"P2PQuic", "BusQuic", "MeshQuic", "RingQuic", "StarQuic"}
TcpVariants == {"P2PTcp", "BusTcp", "MeshTcp", "RingTcp", "StarTcp"}
Variants == QuicVariants \cup TcpVariants

\* const uint32_t PACKET_SIZE = 1500 / #define TCP_SEGMENT_SIZE 1500
PACKET_SIZE == 1500

(***************************************************************************)
(* Decimal rendering of a double by operator<< (precision 6).              *)
(*                                                                         *)
(* The programs compute what they write in binary64 arithmetic: every      *)
(* division and multiplication yields the double nearest to the exact      *)
(* result (ties to even), and operator<< prints the double it is given to  *)
(* 6 significant decimal digits. The operators below follow that           *)
(* arithmetic bit by bit, on naturals of any size.                         *)
(***************************************************************************)
Pow10(k) == IF k = 0 THEN 1 ELSE IF k = 1 THEN 10 ELSE IF k = 2 THEN 100
            ELSE IF k = 3 THEN 1000 ELSE IF k = 4 THEN 10000
            ELSE IF k = 5 THEN 100000 ELSE IF k = 6 THEN 1000000
            ELSE IF k = 7 THEN 10000000 ELSE IF k = 8 THEN 100000000
            ELSE 1000000000

RECURSIVE StripZeros(_, _)
\* Normal form of m * 10^e: no trailing zero in the mantissa.
StripZeros(m, e) ==
    IF m = 0 THEN [m |-> 0, e |-> 0]
    ELSE IF m % 10 = 0 THEN StripZeros(m \div 10, e + 1)
    ELSE [m |-> m, e |-> e]

DecZero == [neg |-> FALSE, m |-> 0, e |-> 0]

\* F applied to the value of v: v is computed once, however often F uses it.
Forced(F(_), v) == CHOOSE r \in {F(x) : x \in {v}} : TRUE

\* Naturals of any size: limbs in base 2^15, least significant first, no
\* leading zero limb.
Limb == 32768

RECURSIVE BigOf(_)
BigOf(n) == IF n = 0 THEN <<>> ELSE <<n % Limb>> \o BigOf(n \div Limb)

RECURSIVE IntOf(_)
IntOf(w0) ==
    LET Val(w) == IF w = <<>> THEN 0 ELSE w[1] + Limb * IntOf(Tail(w))
    IN  Forced(Val, w0)

RECURSIVE Trim(_)
Trim(w0) ==
    LET Cut(w) == IF w # <<>> /\ w[Len(w)] = 0 THEN Trim(SubSeq(w, 1, Len(w) - 1)) ELSE w
    IN  Forced(Cut, w0)

RECURSIVE BitLen(_)
BitLen(n) == IF n = 0 THEN 0 ELSE 1 + BitLen(n \div 2)

\* Number of bits of w.
BigBits(w0) ==
    LET Bits(w) == IF w = <<>> THEN 0 ELSE 15 * (Len(w) - 1) + BitLen(w[Len(w)])
    IN  Forced(Bits, w0)

RECURSIVE BigTimes(_, _, _)
\* w * c + carry, for c <= 2^15.
BigTimes(w0, c, carry0) ==
    LET Times(t) ==
          LET w == t[1]
              p == w[1] * c + t[2]
          IN  IF w = <<>> THEN BigOf(t[2])
              ELSE <<p % Limb>> \o BigTimes(Tail(w), c, p \div Limb)
    IN  Forced(Times, <<w0, carry0>>)

RECURSIVE BigMinus(_, _, _)
\* a - b - borrow, for a >= b + borrow (as many limbs as a has).
BigMinus(a0, b0, borrow0) ==
    LET Minus(t) ==
          LET a == t[1]
              b == t[2]
              s == a[1] - (IF b = <<>> THEN 0 ELSE b[1]) - t[3]
          IN  IF a = <<>> THEN <<>>
              ELSE <<s % Limb>> \o
                   BigMinus(Tail(a), IF b = <<>> THEN <<>> ELSE Tail(b),
                            IF s < 0 THEN 1 ELSE 0)
    IN  Forced(Minus, <<a0, b0, borrow0>>)

RECURSIVE LimbDiv(_, _, _)
\* One limb brought down in a short division by d, c bits at a time (c
\* divides 15, 2^c * d <= 2^31): from the running remainder s.r and the limb
\* s.limb, of which s.k groups of c bits are still to come, the quotient limb
\* and the new remainder.
LimbDiv(d, c, s0) ==
    LET Step(s) ==
          LET cur == s.r * (2 ^ c) + ((s.limb \div (2 ^ (c * (s.k - 1)))) % (2 ^ c))
          IN  IF s.k = 0 THEN [q |-> s.q, r |-> s.r]
              ELSE LimbDiv(d, c, [k |-> s.k - 1, limb |-> s.limb, r |-> cur % d,
                                  q |-> s.q * (2 ^ c) + cur \div d])
    IN  Forced(Step, s0)

RECURSIVE DivStep(_, _, _, _)
\* Short division of the limbs w by d: quotient limbs (as many as w has) and
\* remainder. st.i: the limb to bring down next; st.r: running remainder;
\* st.acc: quotient limbs so far.
DivStep(w, d, c, st0) ==
    LET Step(st) ==
          LET Next(ld) == DivStep(w, d, c, [i |-> st.i - 1, r |-> ld.r,
                                            acc |-> <<ld.q>> \o st.acc])
          IN  IF st.i = 0 THEN [q |-> st.acc, r |-> st.r]
              ELSE Forced(Next, LimbDiv(d, c, [k |-> 15 \div c, limb |-> w[st.i],
                                               r |-> st.r, q |-> 0]))
    IN  Forced(Step, st0)

\* floor(w / d) and w mod d, for 0 < d <= 2^30.
BigDiv(w0, d0) ==
    LET Div(t) ==
          LET w == t[1]
              d == t[2]
              c == IF d <= 65536 THEN 15 ELSE IF d <= 67108864 THEN 5
                   ELSE IF d <= 268435456 THEN 3 ELSE 1
              Trimmed(res) == [q |-> Trim(res.q), r |-> res.r]
          IN  Forced(Trimmed, DivStep(w, d, c, [i |-> Len(w), r |-> 0, acc |-> <<>>]))
    IN  Forced(Div, <<w0, d0>>)

Zeros(n) == [i \in 1..n |-> 0]

\* w * 2^s.
BigShiftLeft(w0, s) ==
    LET Shift(w) == IF w = <<>> THEN <<>>
                    ELSE Zeros(s \div 15) \o BigTimes(w, 2 ^ (s % 15), 0)
    IN  Forced(Shift, w0)

\* floor(w / 2^s), and whether a non-zero bit was dropped.
BigShiftRight(w0, s0) ==
    LET Shift(t) ==
          LET w  == t[1]
              dl == t[2] \div 15
              Rest(dv) == [q |-> dv.q, sticky |-> dv.r # 0 \/ \E i \in 1..dl : w[i] # 0]
          IN  IF dl >= Len(w) THEN [q |-> <<>>, sticky |-> w # <<>>]
              ELSE Forced(Rest, BigDiv(SubSeq(w, dl + 1, Len(w)), 2 ^ (t[2] % 15)))
    IN  Forced(Shift, <<w0, s0>>)

\* A double is a record [neg, m, e] standing for (-1)^neg * m * 2^e, with m
\* the limbs of a natural of at most 53 bits (no limb for zero).

\* The double nearest to w * 2^e (to a value just above it when `sticky`),
\* ties to even.
Nearest(neg, w0, e0, sticky0) ==
    LET Round(t) ==
          LET w == t[1]
              n == BigBits(w)
              Halved(sh) ==
                LET Up(half) ==
                      LET odd == sh.q[1] % 2 = 1
                          up  == odd /\ (sh.sticky \/ t[3] \/ half[1] % 2 = 1)
                      IN  [neg |-> neg,
                           m |-> IF up THEN BigTimes(half, 1, 1) ELSE half,
                           e |-> t[2] + n - 53]
                IN  Forced(Up, BigDiv(sh.q, 2).q)
          IN  IF n <= 53 THEN [neg |-> neg /\ w # <<>>, m |-> w, e |-> t[2]]
              ELSE Forced(Halved, BigShiftRight(w, n - 54))
    IN  Forced(Round, <<w0, e0, sticky0>>)

RECURSIVE OddPart(_, _)
\* d = odd * 2^twos.
OddPart(d, twos) ==
    IF d % 2 = 0 THEN OddPart(d \div 2, twos + 1) ELSE [odd |-> d, twos |-> twos]

\* static_cast<double>(n) for a natural below 2^53, given by its limbs or as
\* a number.
DblOfBig(w) == [neg |-> FALSE, m |-> w, e |-> 0]
DblOfNat(n) == DblOfBig(BigOf(n))

\* x / d for a double x and a positive integer d below 2^30: the quotient of
\* the mantissa, carried to 90 more bits, by the odd part of d, then rounded.
DblOver(x0, d) ==
    LET Over(t) ==
          LET x  == t[1]
              op == t[2]
              Rounded(dv) == Nearest(x.neg, dv.q, x.e - 90 - op.twos, dv.r # 0)
          IN  IF x.m = <<>> THEN x
              ELSE Forced(Rounded, BigDiv(Zeros(6) \o x.m, op.odd))
    IN  Forced(Over, <<x0, OddPart(d, 0)>>)

\* x * c for a double x and a positive integer c up to 2^15.
DblTimes(x0, c) ==
    LET Times(x) == Nearest(x.neg, BigTimes(x.m, c, 0), x.e, FALSE)
    IN  Forced(Times, x0)

\* 1 - x for a double x >= 0: the difference of the two numbers written to
\* the same exponent (0 when x has a positive one), then rounded.
DblOneMinus(x0) ==
    LET Minus(x) ==
          LET e   == IF x.e > 0 THEN 0 ELSE x.e
              xm  == IF x.e > 0 THEN BigShiftLeft(x.m, x.e) ELSE x.m
              one == BigShiftLeft(<<1>>, -e)
              lt  == BigBits(xm) <= -e     \* x < 1
          IN  IF x.m = <<>> THEN DblOfNat(1)
              ELSE Nearest(~lt, Trim(BigMinus(IF lt THEN one ELSE xm,
                                              IF lt THEN xm ELSE one, 0)), e, FALSE)
    IN  Forced(Minus, x0)

RECURSIVE TimesPow10(_, _)
\* w * 10^k.
TimesPow10(w, k) ==
    IF k = 0 THEN w
    ELSE IF k >= 4 THEN TimesPow10(BigTimes(w, 10000, 0), k - 4)
    ELSE BigTimes(w, Pow10(k), 0)

RECURSIVE OverPow10(_, _, _)
\* floor(w / 10^k) and whether anything non-zero was dropped.
OverPow10(w, k0, sticky0) ==
    LET Over(t) ==
          LET k == t[1]
              j == IF k >= 4 THEN 4 ELSE k
              Rest(dv) == OverPow10(dv.q, k - j, t[2] \/ dv.r # 0)
          IN  IF k = 0 THEN [q |-> w, sticky |-> t[2]]
              ELSE Forced(Rest, BigDiv(w, Pow10(j)))
    IN  Forced(Over, <<k0, sticky0>>)

\* floor(|x| * 10^k) and whether anything non-zero was dropped, for a double
\* x.
Scaled(x, k) ==
    LET Cut(s) == OverPow10(s.q, -k, s.sticky)
    IN  IF k >= 0
        THEN IF x.e >= 0
             THEN [q |-> BigShiftLeft(TimesPow10(x.m, k), x.e), sticky |-> FALSE]
             ELSE BigShiftRight(TimesPow10(x.m, k), -x.e)
        ELSE Forced(Cut, IF x.e >= 0
                         THEN [q |-> BigShiftLeft(x.m, x.e), sticky |-> FALSE]
                         ELSE BigShiftRight(x.m, -x.e))

RECURSIVE Digits7(_, _)
\* The first 7 significant decimal digits of the double x # 0 as the integer
\* acc, the power of ten e of its last digit, and whether anything non-zero
\* follows; k is the power of ten tried.
Digits7(x, k0) ==
    LET Try(k) ==
          LET Pick(s) ==
                LET d == IF BigBits(s.q) > 30 THEN 0 ELSE IntOf(s.q)
                    Digits(n) ==
                      IF n < 1000000 THEN Digits7(x, k + 1)
                      ELSE IF n >= 100000000 THEN Digits7(x, k - 2)
                      ELSE IF n >= 10000000
                           THEN [acc |-> n \div 10, e |-> 1 - k,
                                 sticky |-> s.sticky \/ n % 10 # 0]
                      ELSE [acc |-> n, e |-> -k, sticky |-> s.sticky]
                IN  IF BigBits(s.q) > 30 THEN Digits7(x, k - 2) ELSE Forced(Digits, d)
          IN  Forced(Pick, Scaled(x, k))
    IN  Forced(Try, k0)

\* operator<<(double) with the default precision of 6: the exact value of the
\* double rounded to 6 significant decimal digits, ties to even.
Shown(x0) ==
    LET Printed(x) ==
          LET Rounded(d7) ==
                LET m6 == d7.acc \div 10
                    g  == d7.acc % 10
                    up == g > 5 \/ (g = 5 /\ (d7.sticky \/ m6 % 2 = 1))
                    r  == StripZeros(IF up THEN m6 + 1 ELSE m6, d7.e + 1)
                IN  [neg |-> x.neg, m |-> r.m, e |-> r.e]
          IN  IF x.m = <<>> THEN DecZero
              ELSE Forced(Rounded,
                          Digits7(x, 6 - (((BigBits(x.m) - 1 + x.e) * 30103) \div 100000)))
    IN  Forced(Printed, x0)

\* operator<<(int64_t): every digit of a non-negative integer.
ShownInt(n) == LET Stripped(r) == [neg |-> FALSE, m |-> r.m, e |-> r.e]
               IN  Forced(Stripped, StripZeros(n, 0))

(***************************************************************************)
(* Per-program configuration, read off each main().                        *)
(***************************************************************************)
\* Programs whose main() installs one sender application per client node.
MultiFlow == {"BusQuic", "BusTcp", "StarTcp"}
\* Client nodes of the star (NUM_NODES - 2 in Star quicbbr), as many as the
\* flows the model is bounded to.
ClientNodes == MaxFlows
\* Values of --QUICFlows on the command line (1 when the option is not
\* given): only Star quicbbr has the option, and it accepts any number, 0
\* and more than there are client nodes included.
FlowArgs(v) == IF v = "StarQuic" THEN 0..(ClientNodes + 1) ELSE {1}
\* Number of sender applications main() installs, given --QUICFlows.
NumApps(v, flows) ==
    IF v \in MultiFlow THEN MaxFlows ELSE IF v = "StarQuic" THEN flows ELSE 1
\* The application sets a program can run with.
AppSets(v) == {1..NumApps(v, f) : f \in FlowArgs(v)}
\* Whether main() stays within its containers with n flows: with none, Star
\* quicbbr's sinkApps.Get(0) and sourceApps.Get(0) read an empty container;
\* with more flows than client nodes, clients.Get(i) reads past the last node.
FlowsDefined(v, n) == v # "StarQuic" \/ n \in 1..ClientNodes
\* Whether the install loop reads clients.Get(i) past the last client node.
PastClients(v, n) == v = "StarQuic" /\ n > ClientNodes
\* The applications the install loop has installed when it ends.
Installed(v, n) == IF PastClients(v, n) THEN ClientNodes ELSE n
\* Exit statuses of a process killed by a signal: 128 + SIGABRT, 128 + SIGSEGV.
CrashCodes == {134, 139}

\* Programs that attach through a self-rescheduling attempt on the application.
AttachVariants == QuicVariants \cup {"RingTcp"}
\* A defect: the retry scheduled with no delay at all.
RetryDelayNone(v) == 0
\* A defect: the Mesh program's longer retry delay forgotten.
RetryDelayUniform(v) == 10
\* Delay of the retry scheduled by an attach attempt.
RetryDelay(v) == IF v = "MeshQuic" THEN 20 ELSE 10
\* Delay with which the throughput sampler reschedules itself.
SamplerInterval(v) == IF v \in {"P2PTcp", "MeshTcp", "StarTcp"} THEN 10 ELSE 100
\* Delay with which the loss calculation reschedules itself.
LossInterval(v) == IF v \in {"P2PTcp", "MeshTcp", "StarTcp"} THEN 10 ELSE 100
\* Time of the first sampler event scheduled by main().
SamplerStart(v) == IF v = "RingTcp" THEN 1 ELSE 100
\* Time at which main() schedules TraceCwnd and TraceRtt (TCP programs).
TraceStart(v) == IF v = "BusTcp" THEN 100 ELSE 1
\* Simulator::Stop(Seconds(DURATION)): as in the sources, the horizon is a
\* multiple of the sampling interval after the first tick at 1.0 s, so that a
\* tick falls on the horizon itself.
Duration(v) == 100 + (Periods + 1) * SamplerInterval(v)
\* Programs whose loss calculation writes a 0.0 row when nothing was sent.
LossElseVariants == {"BusQuic", "P2PTcp", "BusTcp", "MeshTcp", "StarTcp"}
\* Applications whose "Tx" trace main() connects to PacketSentCallback.
TxApps(v, apps) == IF v \in MultiFlow THEN apps
                   ELSE IF v = "RingTcp" THEN {} ELSE {1}
\* Applications whose data arrive at the sink the sampler reads: Star quicbbr
\* installs one sink per flow and reads sinkApps.Get(0).
SinkFeeders(v, apps) == IF v = "StarQuic" THEN {1} ELSE apps
\* Programs that connect PacketReceivedCallback to the sink's "Rx" trace.
SinkRxVariants == Variants \ {"BusQuic", "RingTcp"}
\* LogComponentEnable(<the program's own component>, LOG_LEVEL_INFO) in main().
LogEnabled(v) == v \in {"P2PQuic", "MeshQuic", "RingQuic", "StarQuic"}

(***************************************************************************)
(* State.                                                                  *)
(***************************************************************************)
VARIABLES
    variant,         \* which of the ten programs runs
    phase,           \* "setup", "running", "stopped", "done", "aborted", "crashed"
    exitCode,        \* main()'s return value, -1 while it runs
    now,             \* Simulator::Now() in 10 ms units
    queue,           \* pending simulator events, in firing order
    appKind,         \* per application: "bulk" (BulkSendApplication) or "other"
    socket,          \* per application: "null", "ok" (expected type), "foreign"
    subs,            \* per application: trace sinks connected to its socket
    g_cwnd,          \* cached congestion window, in packets (QUIC programs)
    g_rtt,           \* cached RTT in nanoseconds (QUIC programs)
    packetsSent,     \* sent counter
    packetsReceived, \* received counter
    totalRx,         \* sink->GetTotalRx()
    lastTotalRx,     \* the sampler's last observed total
    cwndFile, rttFile, throughputFile, packetLossFile,  \* rows written so far
    streamOpen,      \* per output stream: whether it is open
    notified,        \* transport notifications delivered so far
    last             \* the step just taken, with what it observed

files == <<cwndFile, rttFile, throughputFile, packetLossFile>>
counters == <<packetsSent, packetsReceived>>
cached == <<g_cwnd, g_rtt>>
vars == <<variant, phase, exitCode, now, queue, appKind, socket, subs, g_cwnd,
          g_rtt, packetsSent, packetsReceived, totalRx, lastTotalRx, cwndFile,
          rttFile, throughputFile, packetLossFile, streamOpen, notified, last>>

\* The four output streams, and whether all of them are open.
Streams == {"cwnd", "rtt", "throughput", "loss"}
filesOpen == \A s \in Streams : streamOpen[s]
AllStreams(b) == [s \in Streams |-> b]

NoStep == [op |-> "none", app |-> 0, diag |-> "none", wrote |-> FALSE, prevRx |-> 0,
           val |-> 0, dir |-> "none", maxBytes |-> 0, maxPackets |-> 0]
Step(op, a, diag, wrote, prevRx) ==
    [op |-> op, app |-> a, diag |-> diag, wrote |-> wrote, prevRx |-> prevRx, val |-> 0,
     dir |-> "none", maxBytes |-> 0, maxPackets |-> 0]
\* The step of main()'s setup that was given the command-line values mb and
\* mp, handed the senders the byte budget `budget` (in val) and found the
\* output path in state d.
SetupStep(diag, d, mb, mp, budget) ==
    [Step("setup", 0, diag, FALSE, 0) EXCEPT
        !.dir = d, !.maxBytes = mb, !.maxPackets = mp, !.val = budget]
\* The step of a notification that carried the value val.
Notified(op, wrote, val) == [Step(op, 0, "none", wrote, 0) EXCEPT !.val = val]

Event(t, k, a) == [time |-> t, kind |-> k, app |-> a]
Row(t, v) == [t |-> t, v |-> v]

RECURSIVE InsertAhead(_, _, _)
\* A defect: an event put ahead of those already scheduled for its time.
InsertAhead(q, ev, i) ==
    IF i > Len(q) \/ q[i].time >= ev.time
    THEN SubSeq(q, 1, i - 1) \o <<ev>> \o SubSeq(q, i, Len(q))
    ELSE InsertAhead(q, ev, i + 1)

RECURSIVE InsertAt(_, _, _)
InsertAt(q, ev, i) ==
    IF i > Len(q) \/ q[i].time > ev.time
    THEN SubSeq(q, 1, i - 1) \o <<ev>> \o SubSeq(q, i, Len(q))
    ELSE InsertAt(q, ev, i + 1)

\* A defect: every Schedule call entered in the queue twice.
ScheduleTwice(q, t, delay, k, a) ==
    InsertAt(InsertAt(q, Event(t + delay, k, a), 1), Event(t + delay, k, a), 1)

\* Simulator::Schedule(delay, handler) called at time t: the event fires at
\* t + delay, after every event already scheduled for that time.
Schedule(q, t, delay, k, a) == InsertAt(q, Event(t + delay, k, a), 1)

Pending(k, a) == {i \in 1..Len(queue) : queue[i].kind = k /\ queue[i].app = a}

\* The cached signal a sample reported for application a is read from: the
\* programs keep one g_cwnd and one g_rtt, whatever the number of flows.
CachedSignal(a) == <<g_cwnd, g_rtt>>

Init ==
    /\ variant \in Variants
    /\ phase = "setup"
    /\ exitCode = -1
    /\ now = 0
    /\ queue = <<>>
    /\ \E apps \in AppSets(variant) : appKind \in [apps -> {"bulk", "other"}]
    /\ socket = [a \in DOMAIN appKind |-> "null"]
    /\ subs = [a \in DOMAIN appKind |-> [cwnd |-> 0, rtt |-> 0]]
    /\ g_cwnd = 0
    /\ g_rtt = 0
    /\ packetsSent = 0
    /\ packetsReceived = 0
    /\ totalRx = 0
    /\ lastTotalRx = 0
    /\ cwndFile = <<>>
    /\ rttFile = <<>>
    /\ throughputFile = <<>>
    /\ packetLossFile = <<>>
    /\ streamOpen = AllStreams(FALSE)
    /\ notified = 0
    /\ last = NoStep

(***************************************************************************)
(* main() up to Simulator::Run().                                          *)
(***************************************************************************)
\* Values of --maxBytes and --maxPackets on the command line (0 when the
\* option is not given).
MaxBytesArgs == {0, 4000}
MaxPacketsArgs == {0, 10, 8589935}
\* The values a program's command line can carry: cmd.AddValue registers
\* maxBytes in the QUIC programs, and maxPackets in all of them but Mesh.
CommandLineArgs(v) ==
    [maxBytes : IF v \in QuicVariants THEN MaxBytesArgs ELSE {0},
     maxPackets : IF v \in QuicVariants \ {"MeshQuic"} THEN MaxPacketsArgs ELSE {0}]

\* 500 * p on uint32_t, that is modulo 2^32, computed on 16-bit halves. (The
\* arguments drawn above keep the result below 2^31.)
Mul500U32(p) ==
    LET lo == 500 * (p % 65536)
        hi == (500 * (p \div 65536) + lo \div 65536) % 65536
    IN  hi * 65536 + (lo % 65536)

\* The value main() gives the senders' "MaxBytes" attribute.
ByteBudget(v, mb, mp) ==
    IF v \in TcpVariants THEN 0
    ELSE IF v \in {"P2PQuic", "RingQuic", "StarQuic"} /\ mp # 0 THEN Mul500U32(mp)
    ELSE mb  \* Bus parses maxPackets and never reads it; Mesh has no such option

\* State of the output path when main() starts.
DirStates == {"dir", "missing", "uncreatable", "file"}

\* EnsureDirectoryExists: TRUE when it calls exit(1). The path is written with
\* a trailing '/', so on a regular file stat() fails (ENOTDIR) like on a
\* missing path, and the mkdir() that follows fails as well.
EnsureDirectoryExits(v, d) ==
    CASE v \in {"P2PQuic", "BusQuic", "RingQuic", "StarQuic"} -> d \in {"uncreatable", "file"}
      [] OTHER -> FALSE  \* Mesh ignores mkdir's result; the TCP programs never call it

\* Whether the output path is a directory when the files are opened.
DirUsable(v, d) == d = "dir" \/ (d = "missing" /\ v \in QuicVariants)

\* Programs whose main() returns 1 when a stream failed to open.
OpenChecked(v) == v # "MeshQuic"

\* What opening the four streams can give: in a usable directory each of
\* them opens or does not (a file of that name that cannot be written);
\* otherwise none opens.
OpenOutcomes(v, d) ==
    IF DirUsable(v, d) THEN [Streams -> BOOLEAN] ELSE {AllStreams(FALSE)}

RECURSIVE ScheduleAll(_, _, _)
ScheduleAll(q, evs, i) ==
    IF i > Len(evs) THEN q
    ELSE ScheduleAll(Schedule(q, 0, evs[i].time, evs[i].kind, evs[i].app), evs, i + 1)

\* A defect: the first attach attempts scheduled with the ticks, at 1.0 s.
AttachEventsLate(v, n) ==
    IF v \in AttachVariants THEN [a \in 1..n |-> Event(100, "attach", a)]
    ELSE <<>>

\* The attach attempts main() schedules at 0.1 s, one for each of the n
\* applications.
AttachEvents(v, n) ==
    IF v \in AttachVariants THEN [a \in 1..n |-> Event(10, "attach", a)]
    ELSE <<>>

\* The periodic events main() schedules, in the order of the Schedule calls.
TickEvents(v) ==
    CASE v = "RingQuic" -> <<Event(100, "loss", 0), Event(100, "sampler", 0)>>
      [] v \in QuicVariants \ {"RingQuic"} ->
            <<Event(100, "sampler", 0), Event(100, "loss", 0)>>
      [] v = "RingTcp" -> <<Event(SamplerStart(v), "sampler", 0), Event(100, "loss", 0)>>
      [] OTHER -> <<Event(TraceStart(v), "tracecwnd", 0), Event(TraceStart(v), "tracertt", 0),
                    Event(SamplerStart(v), "sampler", 0), Event(100, "loss", 0)>>

\* Programs that schedule the attach attempts before the streams are opened.
AttachBeforeOpen(v) == v \in AttachVariants \ {"RingQuic"}

\* The events main() schedules for a run with n applications.
SetupQueue(v, n) ==
    ScheduleAll(<<>>, AttachEvents(v, n) \o TickEvents(v)
                      \o <<Event(Duration(v), "stop", 0)>>, 1)

\* main() up to Simulator::Run(). Reading a container outside its elements
\* is undefined and the process is killed by a signal there: in the install
\* loop, ahead of every exit, with more flows than client nodes; after the
\* streams were found open, with no flow at all.
MainSetup ==
    /\ phase = "setup"
    /\ \E d \in DirStates, args \in CommandLineArgs(variant) :
       \E open \in OpenOutcomes(variant, d) :
          LET n == Cardinality(DOMAIN appKind)
              refused == EnsureDirectoryExits(variant, d)
                         \/ (OpenChecked(variant) /\ open # AllStreams(TRUE))
              budget == ByteBudget(variant, args.maxBytes, args.maxPackets)
              early == IF AttachBeforeOpen(variant)
                       THEN ScheduleAll(<<>>, AttachEvents(variant, Installed(variant, n)), 1)
                       ELSE <<>>
          IN  \/ /\ refused
                 /\ ~PastClients(variant, n)
                 /\ phase' = "aborted"
                 /\ exitCode' = 1
                 /\ streamOpen' = AllStreams(FALSE)
                 /\ queue' = early
                 /\ last' = SetupStep(IF variant \in TcpVariants \/ variant = "RingQuic"
                                             \/ LogEnabled(variant)
                                       THEN "error" ELSE "none", d,
                                       args.maxBytes, args.maxPackets, budget)
              \/ /\ PastClients(variant, n) \/ (~FlowsDefined(variant, n) /\ ~refused)
                 /\ phase' = "crashed"
                 /\ exitCode' \in CrashCodes
                 /\ streamOpen' = AllStreams(FALSE)
                 /\ queue' = early
                 /\ last' = SetupStep("none", d, args.maxBytes, args.maxPackets, budget)
              \/ /\ ~refused
                 /\ FlowsDefined(variant, n)
                 /\ phase' = "running"
                 /\ exitCode' = -1
                 /\ streamOpen' = open
                 /\ queue' = SetupQueue(variant, n)
                 /\ last' = SetupStep("none", d, args.maxBytes, args.maxPackets, budget)
    /\ UNCHANGED <<variant, now, appKind, socket, subs, g_cwnd, g_rtt, packetsSent,
                   packetsReceived, totalRx, lastTotalRx, cwndFile, rttFile,
                   throughputFile, packetLossFile, notified>>

(***************************************************************************)
(* Event dispatch: Simulator::Run() invokes the earliest pending event.    *)
(***************************************************************************)
NextEvent == queue[1]
Fires(k) == phase = "running" /\ queue # <<>> /\ NextEvent.kind = k

\* A defect: a record kept although the stream is not open.
PutUnopened(open, file, row) == Append(file, row)
\* A defect: the record put in front of the stream instead of at its end.
PutFirst(open, file, row) == IF open THEN <<row>> \o file ELSE file
\* operator<< on a stream that is not open (its failbit set) writes nothing;
\* `open` is the state of the stream written to.
Put(open, file, row) == IF open THEN Append(file, row) ELSE file


(***************************************************************************)
(* Trace attachment.                                                       *)
(***************************************************************************)
\* What an attach attempt on application a does, from the kind of the
\* application handle and the state of its socket:
\*   "fail"      not a BulkSendApplication: give up
\*   "retry"     schedule the same attempt again after the retry delay
\*   "subscribe" connect CwndTracer/RttTracer (CwndChange/RttChange)
\*   "reject"    Ring tcpcubic's TraceCwndRtt on a socket that is no TcpSocketBase
AttachOutcomeSkipsSocketCheck(v, kind, sock) ==
    \* a defect: the test of the socket pointer forgotten
    IF kind # "bulk" THEN "fail" ELSE "subscribe"

AttachOutcomeGivesUp(v, kind, sock) ==
    \* a defect: no retry while the socket is absent
    IF kind # "bulk" \/ sock = "null" THEN "fail"
    ELSE IF sock = "ok" THEN "subscribe"
    ELSE IF v = "RingTcp" THEN "reject" ELSE "retry"

AttachOutcomeRejectsForeign(v, kind, sock) ==
    \* a defect: a socket of another kind given up on, in every program
    IF kind # "bulk" THEN "fail"
    ELSE IF sock = "null" THEN "retry"
    ELSE IF sock = "ok" THEN "subscribe"
    ELSE "reject"

AttachOutcome(v, kind, sock) ==
    IF kind # "bulk" THEN "fail"
    ELSE IF sock = "null" THEN "retry"
    ELSE IF sock = "ok" THEN "subscribe"
    ELSE IF v = "RingTcp" THEN "reject" ELSE "retry"

\* The message an attach attempt emits: NS_LOG_INFO/NS_LOG_ERROR of the
\* program's log component (printed when main() enabled it), std::cout in
\* Ring tcpcubic; Star quicbbr's AttachTraces has no message at all.
AttachDiag(v, outcome) ==
    IF v = "RingTcp" THEN (IF outcome \in {"fail", "reject"} THEN "error" ELSE "info")
    ELSE IF v = "StarQuic" \/ ~LogEnabled(v) THEN "none"
    ELSE IF outcome = "fail" THEN "error" ELSE "info"

\* AttachTraces(app) / AttachSocketTraces(app), fired from the event queue.
AttachTraces ==
    /\ Fires("attach")
    /\ LET a == NextEvent.app
           outcome == AttachOutcome(variant, appKind[a], socket[a])
       IN  /\ now' = NextEvent.time
           /\ queue' = IF outcome = "retry"
                       THEN Schedule(Tail(queue), NextEvent.time, RetryDelay(variant), "attach", a)
                       ELSE Tail(queue)
           /\ subs' = IF outcome = "subscribe"
                      THEN [subs EXCEPT ![a] = [cwnd |-> @.cwnd + 1, rtt |-> @.rtt + 1]]
                      ELSE subs
           /\ last' = Step("attach", a, AttachDiag(variant, outcome), FALSE, 0)
    /\ UNCHANGED <<variant, phase, exitCode, appKind, socket, g_cwnd, g_rtt, packetsSent,
                   packetsReceived, totalRx, lastTotalRx, cwndFile, rttFile,
                   throughputFile, packetLossFile, streamOpen, notified>>

\* TraceCwnd(): Config::ConnectWithoutContext on every socket in a
\* TcpL4Protocol socket list at the time of the call; the path matches the
\* TCP sockets only.
TraceCwnd ==
    /\ Fires("tracecwnd")
    /\ now' = NextEvent.time
    /\ queue' = Tail(queue)
    /\ subs' = [a \in DOMAIN subs |->
                   IF socket[a] = "ok" THEN [subs[a] EXCEPT !.cwnd = @ + 1] ELSE subs[a]]
    /\ last' = Step("tracecwnd", 0, "none", FALSE, 0)
    /\ UNCHANGED <<variant, phase, exitCode, appKind, socket, g_cwnd, g_rtt, packetsSent,
                   packetsReceived, totalRx, lastTotalRx, cwndFile, rttFile,
                   throughputFile, packetLossFile, streamOpen, notified>>

\* TraceRtt(): the same for the RTT trace source.
TraceRtt ==
    /\ Fires("tracertt")
    /\ now' = NextEvent.time
    /\ queue' = Tail(queue)
    /\ subs' = [a \in DOMAIN subs |->
                   IF socket[a] = "ok" THEN [subs[a] EXCEPT !.rtt = @ + 1] ELSE subs[a]]
    /\ last' = Step("tracertt", 0, "none", FALSE, 0)
    /\ UNCHANGED <<variant, phase, exitCode, appKind, socket, g_cwnd, g_rtt, packetsSent,
                   packetsReceived, totalRx, lastTotalRx, cwndFile, rttFile,
                   throughputFile, packetLossFile, streamOpen, notified>>

(***************************************************************************)
(* Periodic sampling.                                                      *)
(***************************************************************************)
\* Defects: bytes reported instead of bits; the previous total not subtracted.
ThroughputBytes(rx, lastRx) == Shown(DblOver(DblOfNat(rx - lastRx), 1000000))
ThroughputCumulative(rx, lastRx) == Shown(DblOver(DblOfNat(rx * 8), 1000000))
\* A defect: the difference taken the wrong way round, as a signed number.
ThroughputSwapped(rx, lastRx) ==
    LET shown == Shown(DblOver(DblOfNat((rx - lastRx) * 8), 1000000))
    IN  [shown EXCEPT !.neg = shown.m # 0]
\* ((totalRx - lastTotalRx) * 8.0) / 1e6 as written to the throughput stream:
\* the product is exact, the division rounds.
Throughput(rx, lastRx) == Shown(DblOver(DblOfNat((rx - lastRx) * 8), 1000000))

\* The uint32_t difference sent - rcv, as limbs: the difference itself, or
\* 2^32 - (rcv - sent) when rcv > sent.
U32Diff(sent, rcv) ==
    IF rcv <= sent THEN BigOf(sent - rcv)
    ELSE Trim(BigMinus(<<0, 0, 4>>, BigOf(rcv - sent), 0))

\* A defect: the loss left as a fraction, not multiplied by 100.
LossFractionOnly(v, sent, rcv) ==
    IF v = "RingTcp" THEN Shown(DblOneMinus(DblOver(DblOfNat(rcv), sent)))
    ELSE Shown(DblOver(DblOfBig(U32Diff(sent, rcv)), sent))

\* The loss percentage written for sent > 0:
\*   ((packetsSent - packetsReceived) / static_cast<double>(packetsSent)) * 100
\* on uint32_t counters, and in Ring tcpcubic, on uint64_t counters,
\*   (1 - (double)totalPacketsReceived / totalPacketsSent) * 100,
\* each operation rounded to a double.
LossPercent(v, sent, rcv) ==
    Shown(DblTimes(IF v = "RingTcp" THEN DblOneMinus(DblOver(DblOfNat(rcv), sent))
                   ELSE DblOver(DblOfBig(U32Diff(sent, rcv)), sent), 100))

\* A defect: the counter reset by the loss calculation.
ReceivedAtLossReset(v, rcv, rx) == 0
\* The received count the loss calculation uses: Bus quicbbr first overwrites
\* packetsReceived with sink->GetTotalRx() / PACKET_SIZE.
ReceivedAtLoss(v, rcv, rx) == IF v = "BusQuic" THEN rx \div PACKET_SIZE ELSE rcv

\* The rows a loss calculation appends to the loss stream.
LossRows(v, t, sent, rcv) ==
    IF sent > 0 THEN <<Row(t, LossPercent(v, sent, rcv))>>
    ELSE IF v \in LossElseVariants THEN <<Row(t, DecZero)>>
    ELSE <<>>

\* CalculatePacketLoss, fired from the event queue.
CalculatePacketLoss ==
    /\ Fires("loss")
    /\ LET t == NextEvent.time
           rcv == ReceivedAtLoss(variant, packetsReceived, totalRx)
           rows == IF streamOpen["loss"] THEN LossRows(variant, t, packetsSent, rcv)
                   ELSE <<>>
       IN  /\ now' = t
           /\ packetsReceived' = rcv
           /\ packetLossFile' = packetLossFile \o rows
           /\ queue' = Schedule(Tail(queue), t, LossInterval(variant), "loss", 0)
           /\ last' = Step("loss", 0, "none", packetLossFile' # packetLossFile, 0)
    /\ UNCHANGED <<variant, phase, exitCode, appKind, socket, subs, g_cwnd, g_rtt,
                   packetsSent, totalRx, lastTotalRx, cwndFile, rttFile, throughputFile,
                   streamOpen, notified>>

\* newRtt.GetSeconds(): the seconds of a time of ns nanoseconds, as a double.
GetSeconds(ns) == DblOver(DblOfNat(ns), 1000000000)
\* g_rtt * 1000 as written: g_rtt is newRtt.GetSeconds(), kept here in ns.
RttMillis(ns) == Shown(DblTimes(GetSeconds(ns), 1000))
\* g_cwnd as written: a whole number of packets held in a double.
CwndShown(packets) == Shown(DblOfNat(packets))

\* The streams a sampler tick writes to.
SamplerStreams(v) == IF v \in QuicVariants THEN {"throughput", "rtt", "cwnd"}
                     ELSE {"throughput"}
\* Whether a write to one of the streams in S leaves a record.
AnyOpen(S) == \E s \in S : streamOpen[s]

\* A defect: the sampler tick without its "lastTotalRx = totalRx".
TraceMetricsForgetsTotal ==
    /\ Fires("sampler")
    /\ LET t == NextEvent.time
       IN  /\ now' = t
           /\ throughputFile' = Put(streamOpen["throughput"], throughputFile,
                                     Row(t, Throughput(totalRx, lastTotalRx)))
           /\ IF variant \in QuicVariants
              THEN /\ rttFile' = Put(streamOpen["rtt"], rttFile, Row(t, RttMillis(g_rtt)))
                   /\ cwndFile' = Put(streamOpen["cwnd"], cwndFile, Row(t, CwndShown(g_cwnd)))
              ELSE UNCHANGED <<rttFile, cwndFile>>
           /\ queue' = Schedule(Tail(queue), t, SamplerInterval(variant), "sampler", 0)
           /\ last' = Step("sampler", 0, "none", AnyOpen(SamplerStreams(variant)), lastTotalRx)
    /\ UNCHANGED <<variant, phase, exitCode, appKind, socket, subs, g_cwnd, g_rtt,
                   packetsSent, packetsReceived, totalRx, lastTotalRx, packetLossFile,
                   streamOpen, notified>>

\* TraceMetrics (QUIC programs) / findThroughput (TCP programs), fired from
\* the event queue.
TraceMetrics ==
    /\ Fires("sampler")
    /\ LET t == NextEvent.time
       IN  /\ now' = t
           /\ throughputFile' = Put(streamOpen["throughput"], throughputFile,
                                     Row(t, Throughput(totalRx, lastTotalRx)))
           /\ lastTotalRx' = totalRx
           /\ IF variant \in QuicVariants
              THEN /\ rttFile' = Put(streamOpen["rtt"], rttFile, Row(t, RttMillis(g_rtt)))
                   /\ cwndFile' = Put(streamOpen["cwnd"], cwndFile, Row(t, CwndShown(g_cwnd)))
              ELSE UNCHANGED <<rttFile, cwndFile>>
           /\ queue' = Schedule(Tail(queue), t, SamplerInterval(variant), "sampler", 0)
           /\ last' = Step("sampler", 0, "none", AnyOpen(SamplerStreams(variant)), lastTotalRx)
    /\ UNCHANGED <<variant, phase, exitCode, appKind, socket, subs, g_cwnd, g_rtt,
                   packetsSent, packetsReceived, totalRx, packetLossFile, streamOpen,
                   notified>>

(***************************************************************************)
(* End of the run.                                                         *)
(***************************************************************************)
\* The stop event of Simulator::Stop(Seconds(DURATION)): Run() returns and
\* the events still pending are never invoked.
SimulatorStop ==
    /\ Fires("stop")
    /\ now' = NextEvent.time
    /\ queue' = Tail(queue)
    /\ phase' = "stopped"
    /\ last' = Step("stop", 0, "none", FALSE, 0)
    /\ UNCHANGED <<variant, exitCode, appKind, socket, subs, g_cwnd, g_rtt, packetsSent,
                   packetsReceived, totalRx, lastTotalRx, cwndFile, rttFile,
                   throughputFile, packetLossFile, streamOpen, notified>>

\* main() after Run(): close the streams, Simulator::Destroy(), return 0.
MainFinish ==
    /\ phase = "stopped"
    /\ phase' = "done"
    /\ streamOpen' = AllStreams(FALSE)
    /\ queue' = <<>>
    /\ exitCode' = 0
    /\ last' = Step("finish", 0, "none", FALSE, 0)
    /\ UNCHANGED <<variant, now, appKind, socket, subs, g_cwnd, g_rtt, packetsSent,
                   packetsReceived, totalRx, lastTotalRx, cwndFile, rttFile,
                   throughputFile, packetLossFile, notified>>

(***************************************************************************)
(* The transport layer: socket creation and trace notifications.           *)
(***************************************************************************)
\* Sizes of the data a sink reception delivers, congestion windows in bytes
\* and round-trip times in nanoseconds the notifications carry.
ByteSteps == {1250000, 1500}
CwndValues == {15000, 16000}
RttValues == {30000000, 30123456}

\* The kinds of socket an application can be found with: the programs that
\* test the socket's type (DynamicCast in the attach attempt) are run with a
\* socket of another type as well; BulkSendHelper("ns3::TcpSocketFactory")
\* gives the others a TCP socket.
SocketKinds(v) == IF v \in AttachVariants THEN {"ok", "foreign"} ELSE {"ok"}

\* Programs whose senders start at 1.0 s (sourceApps.Start(Seconds(1.0)));
\* the others start theirs at 0.0 s.
LateStart == {"P2PQuic", "BusQuic", "MeshQuic", "StarQuic"}
\* The start time main() gives the sender applications.
StartTime(v) == IF v \in LateStart THEN 100 ELSE 0

\* The sender applications start: main() gives them all the same start time,
\* and BulkSendApplication::StartApplication creates each one's socket. The
\* start event is scheduled while the loop runs, hence behind the events
\* main() scheduled for the same time.
StartApplication ==
    /\ phase = "running"
    /\ now >= StartTime(variant)
    /\ \E a \in DOMAIN socket : appKind[a] = "bulk" /\ socket[a] = "null"
    /\ \E k \in [DOMAIN socket -> SocketKinds(variant)] :
          socket' = [a \in DOMAIN socket |-> IF appKind[a] = "bulk" THEN k[a] ELSE "null"]
    /\ last' = Step("start", 0, "none", FALSE, 0)
    /\ UNCHANGED <<variant, phase, exitCode, now, queue, appKind, subs, g_cwnd, g_rtt,
                   packetsSent, packetsReceived, totalRx, lastTotalRx, cwndFile, rttFile,
                   throughputFile, packetLossFile, streamOpen, notified>>

\* How long after the last event a notification arrives, in 10 ms units: at
\* the same instant, or off the sampling grid.
NotifyDelays == {0, 3}

CanNotify == phase = "running" /\ notified < MaxNotify

\* The times at which the next notification can arrive: not after the
\* earliest pending event, and before the horizon (the transport's events
\* are scheduled while the loop runs, hence behind the stop event scheduled by
\* main()).
NotifyTimes ==
    {t \in {now + d : d \in NotifyDelays} :
        /\ queue # <<>>
        /\ t <= NextEvent.time
        /\ NextEvent.kind = "stop" => t < NextEvent.time}
SomeSocket == \E a \in DOMAIN socket : socket[a] # "null"

\* PacketSentCallback on an application's "Tx" trace (PacketSent on the
\* devices' "MacTx" trace in Ring tcpcubic).
PacketSentCallback ==
    /\ CanNotify
    /\ IF variant = "RingTcp" THEN SomeSocket
       ELSE \E a \in TxApps(variant, DOMAIN socket) : socket[a] # "null"
    /\ packetsSent' = packetsSent + 1
    /\ notified' = notified + 1
    /\ now' \in NotifyTimes
    /\ last' = Step("tx", 0, "none", FALSE, 0)
    /\ UNCHANGED <<variant, phase, exitCode, queue, appKind, socket, subs, g_cwnd,
                   g_rtt, packetsReceived, totalRx, lastTotalRx, cwndFile, rttFile,
                   throughputFile, packetLossFile, streamOpen>>

\* PacketReceived on the devices' "MacRx" trace (Ring tcpcubic).
PacketReceived ==
    /\ CanNotify
    /\ variant = "RingTcp"
    /\ SomeSocket
    /\ packetsReceived' = packetsReceived + 1
    /\ notified' = notified + 1
    /\ now' \in NotifyTimes
    /\ last' = Step("macrx", 0, "none", FALSE, 0)
    /\ UNCHANGED <<variant, phase, exitCode, queue, appKind, socket, subs, g_cwnd,
                   g_rtt, packetsSent, totalRx, lastTotalRx, cwndFile, rttFile,
                   throughputFile, packetLossFile, streamOpen>>

\* PacketSink::HandleRead: the sink adds the packet's size to its total and
\* fires its "Rx" trace, to which PacketReceivedCallback is connected.
SinkReceive ==
    /\ CanNotify
    /\ \E a \in SinkFeeders(variant, DOMAIN socket) : socket[a] # "null"
    /\ \E b \in ByteSteps : totalRx' = totalRx + b /\ last' = Notified("rx", FALSE, b)
    /\ now' \in NotifyTimes
    /\ packetsReceived' = IF variant \in SinkRxVariants THEN packetsReceived + 1
                          ELSE packetsReceived
    /\ notified' = notified + 1
    /\ UNCHANGED <<variant, phase, exitCode, queue, appKind, socket, subs, g_cwnd,
                   g_rtt, packetsSent, lastTotalRx, cwndFile, rttFile, throughputFile,
                   packetLossFile, streamOpen>>

\* newCwnd / PACKET_SIZE on uint32_t operands.
CwndPackets(bytes) == bytes \div PACKET_SIZE

\* n copies of a row: a callback connected n times runs n times.
Copies(n, row) == [i \in 1..n |-> row]

\* CwndTracer (QUIC programs) / CwndChange (TCP programs), invoked by the
\* "CongestionWindow" trace source of application a's socket.
CwndTracer(a) ==
    /\ CanNotify
    /\ subs[a].cwnd > 0
    /\ \E bytes \in CwndValues, t \in NotifyTimes :
          /\ now' = t
          /\ IF variant \in QuicVariants
             THEN g_cwnd' = CwndPackets(bytes) /\ UNCHANGED cwndFile
             ELSE /\ UNCHANGED g_cwnd
                  /\ cwndFile' = IF streamOpen["cwnd"]
                                 THEN cwndFile \o Copies(subs[a].cwnd,
                                          Row(t, CwndShown(CwndPackets(bytes))))
                                 ELSE cwndFile
          /\ last' = Notified("cwnd", variant \in TcpVariants /\ streamOpen["cwnd"], bytes)
    /\ notified' = notified + 1
    /\ UNCHANGED <<variant, phase, exitCode, queue, appKind, socket, subs, g_rtt,
                   packetsSent, packetsReceived, totalRx, lastTotalRx, rttFile,
                   throughputFile, packetLossFile, streamOpen>>

\* newRtt.GetMilliSeconds(): whole milliseconds.
RttWholeMillis(ns) == ns \div 1000000
\* What RttChange writes: the int64_t itself, and in Ring tcpcubic the double
\* it was first assigned to.
RttWritten(v, ns) ==
    IF v = "RingTcp" THEN Shown(DblOfNat(RttWholeMillis(ns)))
    ELSE ShownInt(RttWholeMillis(ns))

\* A defect: only the first notified RTT cached.
RttTracerKeepsFirst(a) ==
    /\ CanNotify
    /\ subs[a].rtt > 0
    /\ \E ns \in RttValues, t \in NotifyTimes :
          /\ now' = t
          /\ IF variant \in QuicVariants
             THEN g_rtt' = (IF g_rtt = 0 THEN ns ELSE g_rtt) /\ UNCHANGED rttFile
             ELSE /\ UNCHANGED g_rtt
                  /\ rttFile' = IF streamOpen["rtt"]
                                THEN rttFile \o Copies(subs[a].rtt, Row(t, RttWritten(variant, ns)))
                                ELSE rttFile
          /\ last' = Notified("rtt", variant \in TcpVariants /\ streamOpen["rtt"], ns)
    /\ notified' = notified + 1
    /\ UNCHANGED <<variant, phase, exitCode, queue, appKind, socket, subs, g_cwnd,
                   packetsSent, packetsReceived, totalRx, lastTotalRx, cwndFile,
                   throughputFile, packetLossFile, streamOpen>>

\* RttTracer (QUIC programs) / RttChange (TCP programs), invoked by the "RTT"
\* trace source of application a's socket.
RttTracer(a) ==
    /\ CanNotify
    /\ subs[a].rtt > 0
    /\ \E ns \in RttValues, t \in NotifyTimes :
          /\ now' = t
          /\ IF variant \in QuicVariants
             THEN g_rtt' = ns /\ UNCHANGED rttFile
             ELSE /\ UNCHANGED g_rtt
                  /\ rttFile' = IF streamOpen["rtt"]
                                THEN rttFile \o Copies(subs[a].rtt, Row(t, RttWritten(variant, ns)))
                                ELSE rttFile
          /\ last' = Notified("rtt", variant \in TcpVariants /\ streamOpen["rtt"], ns)
    /\ notified' = notified + 1
    /\ UNCHANGED <<variant, phase, exitCode, queue, appKind, socket, subs, g_cwnd,
                   packetsSent, packetsReceived, totalRx, lastTotalRx, cwndFile,
                   throughputFile, packetLossFile, streamOpen>>

Next ==
    \/ MainSetup
    \/ AttachTraces
    \/ TraceCwnd
    \/ TraceRtt
    \/ CalculatePacketLoss
    \/ TraceMetrics
    \/ SimulatorStop
    \/ MainFinish
    \/ StartApplication
    \/ PacketSentCallback
    \/ PacketReceived
    \/ SinkReceive
    \/ \E a \in DOMAIN socket : CwndTracer(a)
    \/ \E a \in DOMAIN socket : RttTracer(a)

Spec == Init /\ [][Next]_vars

\* Simulator::Run(): one pass of its loop invokes the earliest pending event.
RunLoop ==
    \/ AttachTraces
    \/ TraceCwnd
    \/ TraceRtt
    \/ CalculatePacketLoss
    \/ TraceMetrics
    \/ SimulatorStop

\* main(): its setup, then Simulator::Run(), then the rest of main().
MainProgram == MainSetup \/ RunLoop \/ MainFinish

\* The run as main() drives it: the program's one thread keeps taking its
\* next step (the three parts of main() are enabled in disjoint phases), the
\* loop of Run() invoking the earliest pending event until the stop event.
\* Nothing is assumed about the transport layer's notifications.
SpecLive == Init /\ [][Next]_vars /\ WF_vars(MainProgram)

(***************************************************************************)
(* Properties.                                                             *)
(***************************************************************************)
LastRow(file) == file[Len(file)]
Subscribed == [cwnd |-> 1, rtt |-> 1]
Unsubscribed == [cwnd |-> 0, rtt |-> 0]

\* A written value as a whole number of millionths (for values that have no
\* digit beyond the sixth decimal place).
Micro(v) == v.m * Pow10(v.e + 6)

RECURSIVE MicroSum(_, _)
\* Sum, in millionths, of the values of the first n rows of a stream.
MicroSum(file, n) == IF n = 0 THEN 0 ELSE MicroSum(file, n - 1) + Micro(file[n].v)

\* Whether a written value lies in [0, 100].
InPercentRange(v) ==
    /\ ~v.neg
    /\ \/ v.m = 0
       \/ v.e \in 0..2 /\ v.m * Pow10(v.e) <= 100
       \/ v.e \in -7..-1 /\ v.m <= 100 * Pow10(-v.e)

\* C1: in the programs that attach by retrying, an attach attempt on a bulk
\* sender runs at 0.1 s plus a whole number n of retry delays; the attempts
\* that found the socket absent left the application unsubscribed with one
\* attempt pending, and the attempt that finds a socket of the expected type
\* leaves exactly one congestion-window and one RTT subscription and no
\* attempt pending; once subscribed, an application never has an attempt
\* pending and is never subscribed a second time.
C1_RetryThenSubscribeOnce ==
    variant \in AttachVariants =>
    \A a \in DOMAIN socket :
       /\ subs[a].cwnd <= 1 /\ subs[a].rtt <= 1
       /\ subs[a] # Unsubscribed => subs[a] = Subscribed /\ Pending("attach", a) = {}
       /\ (last.op = "attach" /\ last.app = a /\ appKind[a] = "bulk") =>
             /\ \E n \in 0..Duration(variant) : now = 10 + n * RetryDelay(variant)
             /\ socket[a] = "null" =>
                   subs[a] = Unsubscribed /\ Cardinality(Pending("attach", a)) = 1
             /\ socket[a] = "ok" =>
                   subs[a] = Subscribed /\ Pending("attach", a) = {}

\* C1 witness: the socket was absent on three attempts and the fourth one,
\* three retry delays after 0.1 s, has just subscribed.
C1_SubscribedOnFourthAttempt ==
    /\ variant \in AttachVariants
    /\ last.op = "attach"
    /\ now = 10 + 3 * RetryDelay(variant)
    /\ socket[last.app] = "ok"
    /\ subs[last.app] = Subscribed
    /\ Pending("attach", last.app) = {}

\* C2: an attach attempt on a bulk sender whose socket is not created yet
\* subscribes nothing, leaves the cached signal, the counters, the totals and
\* the four streams as they were, and leaves in the queue exactly one attach
\* attempt for the application, at the attempt's time plus 0.1 s (0.2 s in
\* Mesh quicbbr), in place of the one that ran.
C2_RetryOnlyReschedules ==
    [][(AttachTraces /\ appKind[NextEvent.app] = "bulk" /\ socket[NextEvent.app] = "null") =>
          LET a == NextEvent.app
              delay == IF variant = "MeshQuic" THEN 20 ELSE 10
              again == {i \in 1..Len(queue') :
                          queue'[i].kind = "attach" /\ queue'[i].app = a}
          IN  /\ UNCHANGED <<subs, cached, counters, totalRx, lastTotalRx, files>>
              /\ Cardinality(again) = 1
              /\ \A i \in again : queue'[i].time = now' + delay
              /\ Len(queue') = Len(queue)
      ]_vars

\* C2 witness: Mesh quicbbr's attempt has found no socket and its retry is
\* pending 0.2 s later.
C2_RetryPending ==
    /\ variant = "MeshQuic"
    /\ last.op = "attach"
    /\ socket[last.app] = "null"
    /\ appKind[last.app] = "bulk"
    /\ \E i \in Pending("attach", last.app) : queue[i].time = now + 20

\* C3: after an attach attempt on a handle that is no bulk sender, no attempt
\* for it is pending, nothing is subscribed, a diagnostic was emitted and the
\* run goes on.
C3_NotBulkFailsWithDiagnostic ==
    (last.op = "attach" /\ appKind[last.app] # "bulk") =>
       /\ Pending("attach", last.app) = {}
       /\ subs[last.app] = Unsubscribed
       /\ last.diag # "none"
       /\ phase = "running"

\* C3, the failing case: Star quicbbr's attempt on a handle that is no bulk
\* sender has given up without any message.
C3_SilentFailure ==
    /\ variant = "StarQuic"
    /\ last.op = "attach"
    /\ appKind[last.app] # "bulk"
    /\ Pending("attach", last.app) = {}
    /\ last.diag = "none"

\* C4: while a bulk sender's socket has never become available, from the
\* start of the event loop until it has stopped exactly one attach attempt
\* for the application is pending, nothing is subscribed, and no attempt has
\* reported a failure.
C4_AbsentSocketKeepsOneAttemptPending ==
    (variant \in AttachVariants /\ phase \in {"running", "stopped"}) =>
    \A a \in DOMAIN socket :
       (appKind[a] = "bulk" /\ socket[a] = "null") =>
          /\ Cardinality(Pending("attach", a)) = 1
          /\ subs[a] = Unsubscribed
          /\ (last.op = "attach" /\ last.app = a) => last.diag # "error"

\* C4 witness: the event loop has stopped, the socket never appeared, and the
\* attach attempt is still pending.
C4_StoppedWhileRetrying ==
    /\ variant \in AttachVariants
    /\ phase = "stopped"
    /\ \E a \in DOMAIN socket :
          /\ appKind[a] = "bulk" /\ socket[a] = "null"
          /\ \E i \in Pending("attach", a) : queue[i].time > now

\* C5: every loss value written lies in [0, 100].
C5_LossWithinPercentRange ==
    \A i \in 1..Len(packetLossFile) : InPercentRange(packetLossFile[i].v)

\* C5, the failing case: with more receptions than transmissions counted, the
\* loss tick has written a value outside [0, 100].
C5_LossOutOfRange ==
    /\ last.op = "loss"
    /\ packetsSent > 0
    /\ packetsReceived > packetsSent
    /\ packetLossFile # <<>>
    /\ ~InPercentRange(LastRow(packetLossFile).v)

\* C6: a loss tick taken while the sent counter is 0 has written a row for
\* its time, and the row carries 0.
C6_ZeroSentReportsZero ==
    (last.op = "loss" /\ packetsSent = 0) =>
       /\ packetLossFile # <<>>
       /\ LastRow(packetLossFile) = Row(now, DecZero)

\* C6, the failing case: the loss tick ran with nothing sent and the loss
\* stream has no row for it.
C6_ZeroSentWritesNothing ==
    /\ last.op = "loss"
    /\ packetsSent = 0
    /\ ~last.wrote
    /\ packetLossFile = <<>>

\* C7: a loss tick taken with sent > 0 and received <= sent writes to an
\* open loss stream one row, for its time, with (sent - received) / sent * 100
\* (computed in doubles, printed to 6 significant digits) of the counters as
\* the tick leaves them, and nothing to a stream that is not open; the
\* calculation of the program at hand gives 5 for 100 sent and 95 received.
C7_LossIsPercentOfSent ==
    /\ (last.op = "loss" /\ packetsSent > 0 /\ packetsReceived <= packetsSent) =>
          IF streamOpen["loss"]
          THEN /\ last.wrote
               /\ packetLossFile # <<>>
               /\ LastRow(packetLossFile) =
                     Row(now, Shown(DblTimes(DblOver(DblOfNat(packetsSent - packetsReceived),
                                                     packetsSent), 100)))
          ELSE ~last.wrote /\ packetLossFile = <<>>
    /\ last.op = "loss" =>
          LossRows(variant, now, 100, 95) = <<Row(now, [neg |-> FALSE, m |-> 5, e |-> 0])>>

\* C7 witness: two transmit notifications and no reception were counted, and
\* the tick has written 100 to the loss stream.
C7_AllOfTwoLost ==
    /\ last.op = "loss"
    /\ last.wrote
    /\ notified = 2
    /\ packetsSent = 2
    /\ packetsReceived = 0
    /\ LastRow(packetLossFile) = Row(now, [neg |-> FALSE, m |-> 1, e |-> 2])

\* C8: the sample a sampler tick writes to an open throughput stream, for its
\* time, is (the sink's total at the tick minus the total the tick took as
\* the previous one) * 8 / 10^6, and the samples written so far add up to the
\* total at the tick * 8 / 10^6: the previous total is the total at the
\* previous tick, 0 before the first. A stream that is not open holds nothing.
C8_ThroughputIsDeltaOfTotals ==
    last.op = "sampler" =>
       IF streamOpen["throughput"]
       THEN /\ throughputFile # <<>>
            /\ LastRow(throughputFile).t = now
            /\ LastRow(throughputFile).v =
                  Shown(DblOver(DblOfNat((totalRx - last.prevRx) * 8), 1000000))
            /\ MicroSum(throughputFile, Len(throughputFile)) = totalRx * 8
       ELSE throughputFile = <<>>

\* C8 witness: two receptions of 1250000 bytes, one before each tick, made the
\* totals 1250000 at t = 1 s and 2500000 at t = 2 s, and the ticks have
\* written the samples 10 and 10.
C8_TenAndTen ==
    /\ last.op = "sampler"
    /\ notified = 2
    /\ totalRx = 2500000
    /\ throughputFile = <<Row(100, [neg |-> FALSE, m |-> 1, e |-> 1]),
                          Row(200, [neg |-> FALSE, m |-> 1, e |-> 1])>>

\* C9: each throughput sample is the bits received in the interval before the
\* tick (since the previous sample, or since time 0 for the first) divided by
\* 10^6 times the length of that interval in seconds.
C9_ThroughputIsBitsPerSecond ==
    last.op = "sampler" =>
       LET n == Len(throughputFile)
           interval == IF n = 1 THEN now ELSE throughputFile[n].t - throughputFile[n - 1].t
       IN  /\ n > 0
           /\ throughputFile[n].v =
                 Shown(DblOver(DblOfNat((totalRx - last.prevRx) * 8), interval * 10000))

\* C9, the failing case: a program that samples every 0.1 s has received
\* 1250000 bytes within one period, 100 Mbit/s, and has written 10.
C9_TenthOfTheRate ==
    /\ last.op = "sampler"
    /\ Len(throughputFile) > 1
    /\ LastRow(throughputFile).t - throughputFile[Len(throughputFile) - 1].t = 10
    /\ totalRx - last.prevRx = 1250000
    /\ LastRow(throughputFile).v = [neg |-> FALSE, m |-> 1, e |-> 1]

\* C10: when the samples written before a tick's own already add up to the
\* sink's total (no bytes were received since the previous tick), the tick's
\* sample is 0.
C10_NoBytesNoThroughput ==
    (/\ last.op = "sampler"
     /\ Len(throughputFile) >= 2
     /\ MicroSum(throughputFile, Len(throughputFile) - 1) = totalRx * 8) =>
       LastRow(throughputFile) = Row(now, DecZero)

\* C10 witness: bytes arrived before the previous tick, none since, and the
\* second of two samples is 0.
C10_IdleSecondTick ==
    /\ last.op = "sampler"
    /\ Len(throughputFile) = 2
    /\ totalRx > 0
    /\ throughputFile[1].v # DecZero
    /\ throughputFile[2].v = DecZero

\* The timestamps of a stream.
Stamps(file) == {file[i].t : i \in 1..Len(file)}

\* Every sampler and loss tick due by now has fired and the streams are open.
TicksComplete ==
    /\ phase \in {"running", "stopped"}
    /\ filesOpen
    /\ \A i \in 1..Len(queue) : queue[i].kind \in {"sampler", "loss"} => queue[i].time > now

\* Sampler ticks due by now.
TicksFired ==
    IF now < SamplerStart(variant) THEN 0
    ELSE (now - SamplerStart(variant)) \div SamplerInterval(variant) + 1

\* C11: after a congestion-window notification carrying b bytes, the value
\* reported in packets (the cached value a QUIC program's sampler prints, the
\* value a TCP program writes) is b / 1500.
C11_CwndIsBytesOverPacketSize ==
    (last.op = "cwnd" /\ (variant \in QuicVariants \/ last.wrote)) =>
       LET reported == IF variant \in QuicVariants THEN Shown(DblOfNat(g_cwnd))
                       ELSE LastRow(cwndFile).v
       IN  reported = Shown(DblOver(DblOfNat(last.val), 1500))

\* C11, the failing case: 16000 bytes have been notified and 10 packets are
\* reported, the quotient cut to a whole number.
C11_FractionDropped ==
    /\ last.op = "cwnd"
    /\ last.val = 16000
    /\ \/ variant \in QuicVariants /\ g_cwnd = 10
       \/ /\ variant \in TcpVariants /\ last.wrote
          /\ LastRow(cwndFile).v = [neg |-> FALSE, m |-> 1, e |-> 1]

\* C12: in every stream each record's timestamp is a positive multiple of the
\* program's sampling interval, and the first record is at the interval.
C12_TimestampsOnSamplingGrid ==
    \A k \in 1..4 :
       LET f == files[k]
       IN  /\ \A i \in 1..Len(f) :
                f[i].t > 0 /\ f[i].t % SamplerInterval(variant) = 0
           /\ f # <<>> => f[1].t = SamplerInterval(variant)

\* C12, the failing case: a TCP program has written a congestion-window
\* record at the time of the notification, off the sampling grid.
C12_RecordOffGrid ==
    /\ variant \in TcpVariants
    /\ cwndFile # <<>>
    /\ cwndFile[1].t % SamplerInterval(variant) # 0

\* C13: no throughput record is earlier than one sampling interval, and in
\* every stream consecutive records are exactly one sampling interval apart.
C13_SamplesOnePeriodApart ==
    /\ \A i \in 1..Len(throughputFile) : throughputFile[i].t >= SamplerInterval(variant)
    /\ \A k \in 1..4 : \A i \in 1..(Len(files[k]) - 1) :
          files[k][i + 1].t - files[k][i].t = SamplerInterval(variant)

\* C13, the failing case: Ring tcpcubic's sampler has run at 0.01 s and has
\* written a throughput record before a sampling interval has elapsed.
C13_SampleBeforeFirstInterval ==
    /\ variant = "RingTcp"
    /\ last.op = "sampler"
    /\ last.wrote
    /\ LastRow(throughputFile).t = now
    /\ now < SamplerInterval(variant)

\* C14: once the ticks due have fired, each of the four streams holds one row
\* per tick.
C14_OneRowPerStreamPerTick ==
    TicksComplete => \A k \in 1..4 : Len(files[k]) = TicksFired

\* C14, the failing case: a tick has fired, the sampler has written its three
\* rows, and the loss stream has none because nothing was sent.
C14_TickWithoutLossRow ==
    /\ variant \in QuicVariants
    /\ TicksComplete
    /\ TicksFired = 1
    /\ Len(throughputFile) = 1 /\ Len(cwndFile) = 1 /\ Len(rttFile) = 1
    /\ packetLossFile = <<>>

\* C15: once the ticks due have fired, the four streams hold the same
\* timestamps.
C15_StreamsShareTimestamps ==
    TicksComplete => \A j, k \in 1..4 : Stamps(files[j]) = Stamps(files[k])

\* C15, the failing case: Ring tcpcubic's loss tick has written its row and
\* the throughput stream has no record with that timestamp, nor the loss
\* stream one with the sampler's.
C15_LossAndThroughputApart ==
    /\ variant = "RingTcp"
    /\ last.op = "loss"
    /\ last.wrote
    /\ throughputFile # <<>>
    /\ Stamps(packetLossFile) \cap Stamps(throughputFile) = {}

\* C16: a step that appends to a stream is a sampler tick or a loss tick.
C16_OnlyTicksWrite ==
    [][files' # files => (TraceMetrics \/ CalculatePacketLoss)]_vars

\* C16, the failing case: a TCP program's RTT notification has appended a
\* record to the RTT stream at its own time, between two ticks.
C16_NotificationWroteRecord ==
    /\ variant \in TcpVariants
    /\ last.op = "rtt"
    /\ last.wrote
    /\ LastRow(rttFile).t = now
    /\ now % SamplerInterval(variant) # 0

\* C17: in each stream the records are in non-decreasing order of timestamp.
C17_StreamsInTimestampOrder ==
    \A k \in 1..4 : \A i, j \in 1..Len(files[k]) :
       i < j => files[k][i].t <= files[k][j].t

\* C17 witness: a TCP program has written two throughput records, and a
\* congestion-window record at a time between them.
C17_RecordsInterleaved ==
    /\ variant \in TcpVariants
    /\ Len(throughputFile) >= 2
    /\ cwndFile # <<>>
    /\ throughputFile[1].t < throughputFile[2].t
    /\ throughputFile[1].t < cwndFile[1].t
    /\ cwndFile[1].t < throughputFile[2].t

\* C18: a congestion-window or RTT notification from one application's socket
\* leaves the cached signal of every other application unchanged.
C18_NotificationTouchesOwnFlowOnly ==
    [][\A a \in DOMAIN socket :
          (CwndTracer(a) \/ RttTracer(a)) =>
             \A b \in DOMAIN socket \ {a} : CachedSignal(b)' = CachedSignal(b)
      ]_vars

\* C18, the failing case: Bus quicbbr has several applications subscribed and
\* a congestion-window notification from one of them has overwritten the
\* one cached value all of them report.
C18_SharedCacheOverwritten ==
    /\ variant = "BusQuic"
    /\ Cardinality(DOMAIN socket) >= 2
    /\ \A a \in DOMAIN socket : subs[a] = Subscribed
    /\ last.op = "cwnd"
    /\ g_cwnd > 0
    /\ \A a \in DOMAIN socket : CachedSignal(a)[1] = CwndPackets(last.val)

\* C19: the sampler tick and the loss tick leave both counters unchanged,
\* and a counter changes only in a transmit or receive notification.
C19_TicksLeaveCounters ==
    [][/\ (TraceMetrics \/ CalculatePacketLoss) => UNCHANGED counters
       /\ counters' # counters => last'.op \in {"tx", "macrx", "rx"}
      ]_vars

\* C19, the failing case: Bus quicbbr's loss tick has set the received
\* counter, 0 until then, to the sink's total / 1500.
C19_BusLossSetsReceived ==
    /\ variant = "BusQuic"
    /\ last.op = "loss"
    /\ packetsReceived > 0
    /\ packetsReceived = totalRx \div 1500

\* C20: in every step neither counter decreases; a transmit notification
\* raises the sent counter by 1 and leaves the received counter; a receive
\* notification (on the sink's "Rx" trace where the program connects it, on
\* "MacRx" in Ring tcpcubic) raises the received counter by 1 and leaves the
\* sent counter.
C20_CountersOnlyCountUp ==
    [][/\ packetsSent' >= packetsSent
       /\ packetsReceived' >= packetsReceived
       /\ last'.op = "tx" =>
             packetsSent' = packetsSent + 1 /\ packetsReceived' = packetsReceived
       /\ (last'.op = "macrx" \/ (last'.op = "rx" /\ variant \notin {"BusQuic", "RingTcp"})) =>
             packetsReceived' = packetsReceived + 1 /\ packetsSent' = packetsSent
      ]_vars

\* C20 witness: after a receive notification had made it 0 sent and 1
\* received, a transmit notification has made it 1 sent and 1 received.
C20_OneMoreSent ==
    /\ last.op = "tx"
    /\ notified = 2
    /\ packetsSent = 1
    /\ packetsReceived = 1

\* C21: the sampler's last observed total changes only in a sampler tick; a
\* sampler tick sets it to the sink's total, which the tick leaves as it is;
\* attach attempts, notifications and the loss tick leave it unchanged; and it
\* never goes back to a smaller value.
C21_LastTotalWrittenBySamplerOnly ==
    [][/\ lastTotalRx' # lastTotalRx => last'.op = "sampler"
       /\ last'.op = "sampler" => lastTotalRx' = totalRx /\ totalRx' = totalRx
       /\ last'.op \in {"attach", "tracecwnd", "tracertt", "tx", "macrx", "rx", "cwnd",
                        "rtt", "loss"} => lastTotalRx' = lastTotalRx
       /\ lastTotalRx' >= lastTotalRx
      ]_vars

\* C21 witness: a loss tick after a sampler tick that had raised the last
\* observed total from 0 to the sink's 1250000 bytes, which it still holds.
C21_TotalKeptAcrossLossTick ==
    /\ last.op = "loss"
    /\ throughputFile # <<>>
    /\ LastRow(throughputFile).t = now
    /\ lastTotalRx = 1250000
    /\ totalRx = lastTotalRx

\* C22: a run is never in its event loop with an output stream that failed to
\* open; a run that aborted has exit code 1, has executed no scheduled
\* callback (the clock is still at 0) and has written no record.
C22_OpenFailureAborts ==
    /\ phase \in {"running", "stopped"} => filesOpen
    /\ phase = "aborted" =>
          /\ exitCode = 1
          /\ now = 0
          /\ \A k \in 1..4 : files[k] = <<>>

\* C22, the failing case: in Mesh quicbbr the streams failed to open, the
\* event loop was entered all the same and the sampler tick has executed.
C22_LoopRanWithoutStreams ==
    /\ variant = "MeshQuic"
    /\ phase = "running"
    /\ streamOpen = AllStreams(FALSE)
    /\ last.op = "sampler"
    /\ now = 100

\* C23: when main() found the output path missing and impossible to create,
\* or existing but not a directory, the run has aborted with exit code 1, no
\* stream open and the event loop not entered.
C23_UnusableDirectoryAborts ==
    (last.op = "setup" /\ last.dir \in {"uncreatable", "file"}) =>
        /\ phase = "aborted"
        /\ exitCode = 1
        /\ streamOpen = AllStreams(FALSE)
        /\ now = 0

\* C23, the failing case: Mesh quicbbr has entered its event loop although
\* the output directory could not be created.
C23_MeshRunsWithoutDirectory ==
    /\ variant = "MeshQuic"
    /\ last.op = "setup"
    /\ last.dir = "uncreatable"
    /\ phase = "running"
    /\ exitCode # 1

\* C24: an attach attempt that has ended without subscribing the
\* application's socket has emitted a diagnostic, and so has a setup that
\* ended on a resource error (the run aborted, or the streams not open).
C24_ErrorsAreDiagnosed ==
    /\ (last.op = "attach" /\ subs[last.app] = Unsubscribed) => last.diag # "none"
    /\ (last.op = "setup" /\ ~filesOpen) => last.diag # "none"

\* C24, the failing case: Bus quicbbr has aborted on a directory it could not
\* create, and its message went to a log component that is not enabled.
C24_AbortWithoutDiagnostic ==
    /\ variant = "BusQuic"
    /\ phase = "aborted"
    /\ last.dir = "uncreatable"
    /\ last.diag = "none"

\* C25: when setup has finished and the event loop is about to start, for
\* each application exactly one attach attempt is pending, at 0.1 s, and
\* exactly one sampler tick and one loss tick are pending, both at 1.0 s.
C25_SetupSchedulesAttachAndTicks ==
    (last.op = "setup" /\ phase = "running") =>
        /\ \A a \in DOMAIN appKind :
              /\ Cardinality(Pending("attach", a)) = 1
              /\ \A i \in Pending("attach", a) : queue[i].time = 10
        /\ \A k \in {"sampler", "loss"} :
              /\ Cardinality(Pending(k, 0)) = 1
              /\ \A i \in Pending(k, 0) : queue[i].time = 100

\* C25, the failing case: Ring tcpcubic's setup has scheduled the first
\* sampler tick at 0.01 s and the first loss tick at 1.0 s.
C25_SamplerScheduledEarly ==
    /\ variant = "RingTcp"
    /\ last.op = "setup"
    /\ phase = "running"
    /\ \E i \in Pending("sampler", 0) : queue[i].time = 1
    /\ \E i \in Pending("loss", 0) : queue[i].time = 100

\* The rows written so far to a stream.
Written(s) ==
    CASE s = "cwnd" -> cwndFile
      [] s = "rtt" -> rttFile
      [] s = "throughput" -> throughputFile
      [] s = "loss" -> packetLossFile

\* C26: a stream is open only between the end of setup and the end of the
\* event loop: it becomes open only in main()'s setup, before the loop, and
\* is closed only by main() after the loop has stopped; every record is
\* written by a step of the running loop, to a stream that is open; and a run
\* that completed has exit code 0.
C26_RecordsWhileOpenAndLoopRuns ==
    [][/\ \A s \in Streams :
             /\ Written(s)' # Written(s) =>
                   (streamOpen[s] /\ streamOpen'[s] /\ phase = "running" /\ phase' = "running")
             /\ (~streamOpen[s] /\ streamOpen'[s]) => (phase = "setup" /\ phase' = "running")
             /\ (streamOpen[s] /\ ~streamOpen'[s]) => (phase = "stopped" /\ phase' = "done")
             /\ streamOpen'[s] => phase' \in {"running", "stopped"}
       /\ phase' = "done" => exitCode' = 0
      ]_vars

\* C26 witness: a run has completed with exit code 0, the streams closed,
\* and a throughput record written during the loop in the closed stream.
C26_CompletedWithRecords ==
    /\ phase = "done"
    /\ exitCode = 0
    /\ streamOpen = AllStreams(FALSE)
    /\ throughputFile # <<>>
    /\ LastRow(throughputFile).t < now

\* Every event still pending is for a time at or after `t`.
PendingFrom(t) == \A i \in 1..Len(queue) : queue[i].time >= t

\* C27: no record has a timestamp at or after the horizon; once the loop has
\* stopped no record is written any more and the events still pending, all
\* for the horizon or later, stay unexecuted; and when the stop found a
\* sampler tick pending for the horizon itself (scheduled one interval
\* before, hence behind the stop scheduled by main()), the last throughput
\* record is one interval before the horizon.
C27_NothingAtOrAfterHorizon ==
    /\ \A k \in 1..4 : \A i \in 1..Len(files[k]) : files[k][i].t < Duration(variant)
    /\ now <= Duration(variant)
    /\ phase = "stopped" =>
          /\ now = Duration(variant)
          /\ PendingFrom(Duration(variant))
          /\ last.op = "stop"
          /\ \A i \in Pending("sampler", 0) :
                (queue[i].time = Duration(variant) /\ streamOpen["throughput"]) =>
                   /\ throughputFile # <<>>
                   /\ LastRow(throughputFile).t = Duration(variant) - SamplerInterval(variant)

\* C27 witness: the loop has stopped at the horizon with a sampler tick, a
\* loss tick and an attach retry pending for the horizon or later, and the
\* last throughput record is one second before the horizon.
C27_TicksDiscardedAtHorizon ==
    /\ phase = "stopped"
    /\ SamplerInterval(variant) = 100
    /\ \E i \in Pending("sampler", 0) : queue[i].time = Duration(variant)
    /\ \E i \in Pending("loss", 0) : queue[i].time = Duration(variant)
    /\ \E a \in DOMAIN socket : \E i \in Pending("attach", a) : queue[i].time >= Duration(variant)
    /\ throughputFile # <<>>
    /\ LastRow(throughputFile).t = Duration(variant) - 100

\* C28: a run that is in its event loop with the streams open eventually is
\* a completed run: the clock at the horizon, the streams closed, exit code 0.
C28_OpenedRunCompletes ==
    (phase = "running" /\ filesOpen)
       ~> (/\ phase = "done" /\ now = Duration(variant) /\ exitCode = 0
           /\ streamOpen = AllStreams(FALSE))

\* C28 witness: a run has completed with exit code 0 although the attach
\* attempt kept rescheduling itself to the end, the socket never having
\* become available.
C28_CompletedWhileRetrying ==
    /\ phase = "done"
    /\ exitCode = 0
    /\ now = Duration(variant)
    /\ variant \in AttachVariants
    /\ \E a \in DOMAIN socket :
          appKind[a] = "bulk" /\ socket[a] = "null" /\ subs[a] = Unsubscribed
    /\ throughputFile # <<>>

\* C29: the byte budget main() has handed the senders is 500 times maxPackets
\* when maxPackets is not 0 (whatever maxBytes was), and maxBytes when
\* maxPackets is 0.
C29_BudgetFromMaxPackets ==
    last.op = "setup" =>
        IF last.maxPackets # 0
        THEN last.val \div 500 = last.maxPackets /\ last.val % 500 = 0
        ELSE last.val = last.maxBytes

\* C29, the failing case: Bus quicbbr was given maxPackets = 10 and no
\* maxBytes, and has handed its senders the budget 0, which is unbounded.
C29_MaxPacketsIgnored ==
    /\ variant = "BusQuic"
    /\ last.op = "setup"
    /\ phase = "running"
    /\ last.maxPackets = 10
    /\ last.maxBytes = 0
    /\ last.val = 0

\* C30: in a QUIC program the cached congestion window and RTT are at every
\* moment those of the most recent notification of each (a notification
\* replaces its own cached value by the value it delivers, the window as
\* newCwnd / 1500, and writes no record; no other step changes the cache), and
\* a sampler tick appends one record per stream with the cached values as
\* they are, leaving them cached.
C30_TickWritesLatestNotification ==
    [][(variant \in QuicVariants) =>
         (/\ last'.op = "cwnd" =>
                g_cwnd' = last'.val \div 1500 /\ g_rtt' = g_rtt /\ files' = files
          /\ last'.op = "rtt" =>
                g_rtt' = last'.val /\ g_cwnd' = g_cwnd /\ files' = files
          /\ last'.op \notin {"cwnd", "rtt"} => cached' = cached
          /\ (last'.op = "sampler" /\ streamOpen["cwnd"]) =>
                cwndFile' = Append(cwndFile, Row(now', Shown(DblOfNat(g_cwnd))))
          /\ (last'.op = "sampler" /\ streamOpen["rtt"]) =>
                rttFile' = Append(rttFile, Row(now', RttMillis(g_rtt))))
      ]_vars

\* C30 witness: two RTT notifications, and nothing else, arrived before a
\* tick, the later one with 30.123456 ms; the tick has written one RTT record,
\* 30.1235, and a congestion window of 0, and the cache still holds the value.
C30_LaterOfTwoWritten ==
    /\ variant \in QuicVariants
    /\ last.op = "sampler"
    /\ notified = 2
    /\ packetsSent = 0 /\ packetsReceived = 0 /\ totalRx = 0
    /\ g_cwnd = 0
    /\ g_rtt = 30123456
    /\ Len(rttFile) = Len(cwndFile)
    /\ Cardinality({i \in 1..Len(rttFile) : rttFile[i].v # DecZero}) = 1
    /\ LastRow(rttFile) = Row(now, [neg |-> FALSE, m |-> 301235, e |-> -4])
    /\ LastRow(cwndFile) = Row(now, DecZero)

\* No application has a trace sink connected.
NoSubscription == \A a \in DOMAIN subs : subs[a] = Unsubscribed

\* C31: while no subscription exists, or none has delivered a notification
\* yet, every sampler tick appends one record to the throughput stream, one to
\* the RTT stream and one to the congestion-window stream, the last two with
\* the value 0.
C31_TickWritesThreeRecordsUnattached ==
    [][(last'.op = "sampler" /\ (NoSubscription \/ notified = 0)) =>
         (/\ Len(throughputFile') = Len(throughputFile) + 1
          /\ Len(rttFile') = Len(rttFile) + 1
          /\ Len(cwndFile') = Len(cwndFile) + 1
          /\ LastRow(rttFile').v.m = 0
          /\ LastRow(cwndFile').v.m = 0)
      ]_vars

\* C31, the failing case: a TCP program with its four streams open and no
\* notification delivered; its first tick has fired and has written a
\* throughput record, and the RTT and congestion-window streams hold nothing.
C31_TcpTickWritesThroughputOnly ==
    /\ variant \in TcpVariants
    /\ filesOpen
    /\ notified = 0
    /\ last.op = "sampler"
    /\ last.wrote
    /\ throughputFile = <<Row(now, DecZero)>>
    /\ rttFile = <<>>
    /\ cwndFile = <<>>

\* The times of the attach attempts pending in q for application a.
AttachTimes(q, a) == {q[i].time : i \in {j \in 1..Len(q) : q[j].kind = "attach" /\ q[j].app = a}}

\* C32: in the programs that attach by retrying, for a bulk sender: when its
\* socket becomes available, exactly one attach attempt is pending for it, no
\* earlier than that moment and at most one retry delay (0.1 s; 0.2 s in Mesh
\* quicbbr) after it; the socket stays available and that attempt stays
\* pending until it runs; an attempt that finds the socket available runs at
\* the pending time, which is 0.1 s plus a whole number of retry delays, and
\* is the one that subscribes; no attempt runs at any other kind of time.
C32_SubscribedAtFirstAttemptAfterSocket ==
    [][(variant \in AttachVariants) =>
         LET delay == IF variant = "MeshQuic" THEN 20 ELSE 10
         IN  \A a \in DOMAIN socket :
               /\ (last'.op = "start" /\ appKind[a] = "bulk" /\ socket'[a] = "ok") =>
                     /\ Cardinality(AttachTimes(queue', a)) = 1
                     /\ \A t \in AttachTimes(queue', a) : now' <= t /\ t <= now' + delay
               /\ (appKind[a] = "bulk" /\ socket[a] = "ok" /\ subs[a] = Unsubscribed) =>
                     /\ socket'[a] = "ok"
                     /\ (phase' = "running" /\ ~(last'.op = "attach" /\ last'.app = a)) =>
                           /\ AttachTimes(queue', a) = AttachTimes(queue, a)
                           /\ subs'[a] = Unsubscribed
                     /\ (last'.op = "attach" /\ last'.app = a) =>
                           /\ AttachTimes(queue, a) = {now'}
                           /\ AttachTimes(queue', a) = {}
                           /\ subs'[a] = Subscribed
               /\ (last'.op = "attach" /\ last'.app = a) =>
                     /\ now' = NextEvent.time
                     /\ now' >= 10 /\ (now' - 10) % delay = 0
                     /\ subs'[a] # subs[a] => appKind[a] = "bulk" /\ socket[a] = "ok"
      ]_vars

\* C32 witness: in Mesh quicbbr the attempts from 0.1 s to 0.9 s found no
\* socket, the sender started at 1.0 s, and the attempt at 1.1 s has found
\* the socket and subscribed.
C32_SubscribedAfterLateStart ==
    /\ variant = "MeshQuic"
    /\ last.op = "attach"
    /\ now = 110
    /\ socket[1] = "ok"
    /\ subs[1] = Subscribed
    /\ AttachTimes(queue, 1) = {}

\* The positions of the pending events of kind k.
PendingOfKind(k) == {i \in 1..Len(queue) : queue[i].kind = k}

\* C33: the queue never holds more than one sampler tick, more than one
\* loss-calculation tick, or more than one attach attempt for the same
\* application (an attach attempt always names an application of the run);
\* while the event loop runs exactly one sampler tick and exactly one loss
\* tick are pending, and a handler that has just run left at most one
\* successor of its own kind, later than the time it ran at.
C33_AtMostOneSuccessorPending ==
    /\ Cardinality(PendingOfKind("sampler")) <= 1
    /\ Cardinality(PendingOfKind("loss")) <= 1
    /\ \A i \in PendingOfKind("attach") : queue[i].app \in DOMAIN socket
    /\ \A a \in DOMAIN socket : Cardinality(Pending("attach", a)) <= 1
    /\ phase = "running" =>
          /\ Cardinality(PendingOfKind("sampler")) = 1
          /\ Cardinality(PendingOfKind("loss")) = 1
    /\ (phase = "running" /\ last.op \in {"sampler", "loss", "attach"}) =>
          \A i \in PendingOfKind(last.op) :
             (last.op = "attach" => queue[i].app = last.app) => queue[i].time > now

\* C33 witness: Bus quicbbr's second sampler tick, at 2.0 s, has run while
\* the first sender's socket is still absent: one sampler tick is pending at
\* 3.0 s, one loss tick, and one attach attempt of the first sender.
C33_SecondTickRescheduled ==
    /\ variant = "BusQuic"
    /\ last.op = "sampler"
    /\ now = 200
    /\ appKind[1] = "bulk" /\ socket[1] = "null"
    /\ \E i \in PendingOfKind("sampler") : queue[i].time = 300
    /\ Cardinality(PendingOfKind("loss")) = 1
    /\ Cardinality(Pending("attach", 1)) = 1

\* C34: the sampler's last observed total never exceeds the sink's total. At
\* a sampler tick the total observed before is at most the sink's total and the
\* tick leaves the two equal; the sample it writes is not negative and is
\* exactly (total - previous total) * 8 / 10^6; the samples written before it
\* add up to the previous total and those written up to and including it to
\* the sink's total at the tick, whatever was received before the first tick
\* being part of the first sample.
C34_DeltasSumToTotal ==
    /\ lastTotalRx <= totalRx
    /\ last.op = "sampler" =>
          /\ last.prevRx <= totalRx
          /\ lastTotalRx = totalRx
          /\ streamOpen["throughput"] =>
                LET n == Len(throughputFile)
                IN  /\ n > 0
                    /\ \A i \in 1..n : ~throughputFile[i].v.neg
                    /\ Micro(throughputFile[n].v) = (totalRx - last.prevRx) * 8
                    /\ MicroSum(throughputFile, n - 1) = last.prevRx * 8
                    /\ MicroSum(throughputFile, n) = totalRx * 8

\* C34 witness: 1250000 bytes arrived before the first tick and 1500 between
\* the first and the second; the samples are 10 and 0.012, and the second tick
\* has observed 1251500 bytes.
C34_FirstSampleTakesEarlierBytes ==
    /\ last.op = "sampler"
    /\ notified = 2
    /\ last.prevRx = 1250000
    /\ totalRx = 1251500
    /\ lastTotalRx = 1251500
    /\ Len(throughputFile) = 2
    /\ Micro(throughputFile[1].v) = 10000000
    /\ Micro(throughputFile[2].v) = 12000

\* C35: in the QUIC programs an attach attempt on a bulk sender whose socket
\* exists but is no QUIC socket subscribes nothing, changes no cached signal,
\* counter, total or stream, reports no error, and leaves in the queue exactly
\* one attempt for the application, one retry delay (0.1 s; 0.2 s in Mesh
\* quicbbr) later, in place of the one that ran; such a socket stays what it
\* is, and while the run lasts its application stays unsubscribed with one
\* attempt pending.
C35_ForeignSocketRetried ==
    [][(variant \in QuicVariants) =>
         LET delay == IF variant = "MeshQuic" THEN 20 ELSE 10
         IN  \A a \in DOMAIN socket :
               (appKind[a] = "bulk" /\ socket[a] = "foreign") =>
                  /\ socket'[a] = "foreign"
                  /\ subs[a] = Unsubscribed /\ subs'[a] = Unsubscribed
                  /\ phase' \in {"running", "stopped"} =>
                        Cardinality(AttachTimes(queue', a)) = 1
                  /\ (last'.op = "attach" /\ last'.app = a) =>
                        /\ UNCHANGED <<subs, cached, counters, totalRx, lastTotalRx, files>>
                        /\ AttachTimes(queue, a) = {now'}
                        /\ AttachTimes(queue', a) = {now' + delay}
                        /\ Len(queue') = Len(queue)
                        /\ last'.diag # "error"
      ]_vars

\* C35 witness: Point-To-Point quicbbr's sender has a socket of another kind;
\* the attempt at 2.9 s, the last one before the horizon, has run, nothing is
\* subscribed, and the next attempt is pending at 3.0 s.
C35_StillRetryingBeforeHorizon ==
    /\ variant = "P2PQuic"
    /\ appKind[1] = "bulk"
    /\ socket[1] = "foreign"
    /\ last.op = "attach"
    /\ last.diag = "info"
    /\ now = 290
    /\ subs[1] = Unsubscribed
    /\ AttachTimes(queue, 1) = {300}
====
